---- MODULE Spec2Model ----
(***************************************************************************)
(* Model of lib/promscrape/discovery/kubernetes/kubeconfig.go:             *)
(* AuthInfo.validate and buildConfig, the resolution of a decoded          *)
(* kubeconfig (clusters, users, contexts, current-context) into a          *)
(* kubeConfig connection descriptor.                                       *)
(*                                                                         *)
(* Representation.  A Go string is a sequence of one-character strings,    *)
(* so that len, strings.HasPrefix and base64 decoding are computed on its  *)
(* characters.  A Go pointer is a sequence of length 0 (nil) or 1 (the     *)
(* pointee).  A []byte is a sequence of numbers 0..255, and nil is <<>>.   *)
(* A Go map is a function whose DOMAIN is the set of inserted keys.        *)
(***************************************************************************)
EXTENDS Integers, Sequences, FiniteSets, TLC

VARIABLES
    config,        \* the decoded Config (kubeconfig.go:159-162)
    au,            \* the receiver of a direct AuthInfo.validate call
    pc,            \* "decoded" | "built" | "unchecked" | "validated"
    authInfos,     \* buildConfig's local map name -> *AuthInfo
    clusterInfos,  \* buildConfig's local map name -> *Cluster
    contexts,      \* buildConfig's local map name -> *Context
    validated,     \* the AuthInfos validate() was invoked on by buildConfig
    kc,            \* buildConfig's returned *kubeConfig (nil on failure)
    err            \* the returned error (nil on success)

vars == <<config, au, pc, authInfos, clusterInfos, contexts, validated, kc, err>>

----------------------------------------------------------------------------
(* Pointers and strings *)

Nil == <<>>

Ptr(x) == <<x>>

Deref(p) == p[1]

EmptyStr == <<>>

\* strings.HasPrefix(s, prefix)
HasPrefix(s, prefix) ==
    /\ Len(s) >= Len(prefix)
    /\ SubSeq(s, 1, Len(prefix)) = prefix

HttpsPrefix == <<"h","t","t","p","s",":","/","/">>

----------------------------------------------------------------------------
(* encoding/base64: StdEncoding.DecodeString (padded, non-strict) *)

encodeStd ==
    <<"A","B","C","D","E","F","G","H","I","J","K","L","M","N","O","P",
      "Q","R","S","T","U","V","W","X","Y","Z","a","b","c","d","e","f",
      "g","h","i","j","k","l","m","n","o","p","q","r","s","t","u","v",
      "w","x","y","z","0","1","2","3","4","5","6","7","8","9","+","/">>

PadChar == "="

IsB64Char(c) == \E i \in 1..Len(encodeStd) : encodeStd[i] = c

\* the 6-bit value of an alphabet character
B64Val(c) == (CHOOSE i \in 1..Len(encodeStd) : encodeStd[i] = c) - 1

\* One quantum of four input characters; last says that no input follows it.
\* Yields <<ok, bytes>>.  Padding is accepted only in the last quantum, as
\* "xx==" (one byte) or "xxx=" (two bytes); the unused low bits are not
\* checked (the encoding is not strict).  The decoder also skips "\r" and
\* "\n"; no input drawn below contains them.
DecodeQuantum(q, last) ==
    LET v(i) == B64Val(q[i])
        n4   == v(1) * 262144 + v(2) * 4096 + v(3) * 64 + v(4)
        n3   == v(1) * 262144 + v(2) * 4096 + v(3) * 64
        n2   == v(1) * 262144 + v(2) * 4096
    IN  IF ~IsB64Char(q[1]) \/ ~IsB64Char(q[2]) THEN <<FALSE, <<>>>>
        ELSE IF IsB64Char(q[3]) /\ IsB64Char(q[4])
             THEN <<TRUE, <<n4 \div 65536, (n4 \div 256) % 256, n4 % 256>>>>
        ELSE IF IsB64Char(q[3]) /\ q[4] = PadChar /\ last
             THEN <<TRUE, <<n3 \div 65536, (n3 \div 256) % 256>>>>
        ELSE IF q[3] = PadChar /\ q[4] = PadChar /\ last
             THEN <<TRUE, <<n2 \div 65536>>>>
        ELSE <<FALSE, <<>>>>

RECURSIVE DecodeFrom(_, _)
DecodeFrom(s, acc) ==
    IF Len(s) = 0 THEN [ok |-> TRUE, bytes |-> acc]
    ELSE IF Len(s) < 4 THEN [ok |-> FALSE, bytes |-> acc]
    ELSE LET r == DecodeQuantum(SubSeq(s, 1, 4), Len(s) = 4)
         IN  IF ~r[1] THEN [ok |-> FALSE, bytes |-> acc]
             ELSE DecodeFrom(SubSeq(s, 5, Len(s)), acc \o r[2])

\* base64.StdEncoding.DecodeString(s): ok = (err == nil)
DecodeString(s) == DecodeFrom(s, <<>>)

----------------------------------------------------------------------------
(* Errors.  kind and field are the fixed parts of the message, arg is the   *)
(* value formatted into it, cause is the wrapped error (%w).                *)

Err(kind, field, arg, cause) ==
    [kind |-> kind, field |-> field, arg |-> arg, cause |-> cause]

\* fmt.Errorf("field: %s is not supported currently, ...", field)
ErrUnsupported(field) == Err("UnsupportedAuthField", field, EmptyStr, Nil)

\* fmt.Errorf("username cannot be empty, if password defined")
ErrUsernameEmpty == Err("InvalidCredentials", "username", EmptyStr, Nil)

\* fmt.Errorf("context %q does not exist", contextName)
ErrContextNotFound(name) == Err("ContextNotFound", "", name, Nil)

\* fmt.Errorf("cluster %q does not exist", clusterInfoName)
ErrClusterNotFound(name) == Err("ClusterNotFound", "", name, Nil)

\* fmt.Errorf("kubernetes server address cannot be empty, define it for context: %s", contextName)
ErrEmptyServer(name) == Err("EmptyServerAddress", "", name, Nil)

\* fmt.Errorf("auth info %q does not exist", authInfoName)
ErrAuthInfoNotFound(name) == Err("AuthInfoNotFound", "", name, Nil)

\* fmt.Errorf("cannot base64-decode <field> %q: %w", configClusterInfo.CertificateAuthorityData, err)
\* All three decode failures format the cluster's CertificateAuthorityData.
ErrBase64(field, caData) == Err("Base64DecodeError", field, caData, Nil)

\* fmt.Errorf("invalid user auth configuration for context: %s, err: %w", contextName, err)
ErrInvalidAuth(name, cause) == Err("InvalidAuthInfo", "", name, Ptr(cause))

----------------------------------------------------------------------------
(* func (au *AuthInfo) validate() error: nil, or a pointer to the error *)

\* act-as checked before act-as-uid
validate_ActAsFirst(a) ==
    IF a.Exec # Nil THEN Ptr(ErrUnsupported("exec"))
    ELSE IF Len(a.Impersonate) > 0 THEN Ptr(ErrUnsupported("act-as"))
    ELSE IF Len(a.ImpersonateUID) > 0 THEN Ptr(ErrUnsupported("act-as-uid"))
    ELSE IF Len(a.ImpersonateGroups) > 0 THEN Ptr(ErrUnsupported("act-as-groups"))
    ELSE IF Len(a.ImpersonateUserExtra) > 0 THEN Ptr(ErrUnsupported("act-as-user-extra"))
    ELSE IF Len(a.Password) > 0 /\ Len(a.Username) = 0 THEN Ptr(ErrUsernameEmpty)
    ELSE Nil

validate(a) ==
    IF a.Exec # Nil THEN Ptr(ErrUnsupported("exec"))
    ELSE IF Len(a.ImpersonateUID) > 0 THEN Ptr(ErrUnsupported("act-as-uid"))
    ELSE IF Len(a.Impersonate) > 0 THEN Ptr(ErrUnsupported("act-as"))
    ELSE IF Len(a.ImpersonateGroups) > 0 THEN Ptr(ErrUnsupported("act-as-groups"))
    ELSE IF Len(a.ImpersonateUserExtra) > 0 THEN Ptr(ErrUnsupported("act-as-user-extra"))
    ELSE IF Len(a.Password) > 0 /\ Len(a.Username) = 0 THEN Ptr(ErrUsernameEmpty)
    ELSE Nil

----------------------------------------------------------------------------
(* Go maps *)

EmptyMap == [k \in {} |-> Nil]

\* an existing key keeps its value
MapInsert_KeepFirst(m, k, v) ==
    [x \in DOMAIN m \cup {k} |-> IF x \in DOMAIN m THEN m[x] ELSE v]

\* a nil value is not stored
MapInsert_SkipNil(m, k, v) ==
    IF v = Nil THEN m
    ELSE [x \in DOMAIN m \cup {k} |-> IF x = k THEN v ELSE m[x]]

\* m[k] = v
MapInsert(m, k, v) ==
    [x \in DOMAIN m \cup {k} |-> IF x = k THEN v ELSE m[x]]

\* m[k]: the zero value (a nil pointer) for a key that is not in the map
MapGet(m, k) == IF k \in DOMAIN m THEN m[k] ELSE Nil

\* for _, obj := range list { m[obj.Name] = obj.<body> }
RECURSIVE BuildMap(_, _)
BuildMap(list, m) ==
    IF Len(list) = 0 THEN m
    ELSE BuildMap(Tail(list), MapInsert(m, Head(list).Name, Head(list).Body))

----------------------------------------------------------------------------
(* The decisions of buildConfig *)

\* configContext == nil
ContextMissing(configContext) == configContext = Nil

\* the cluster looked up under the context's own name
ClusterInfoName_FromContextName(contextName, context) == contextName

\* clusterInfoName := configContext.Cluster
ClusterInfoName(contextName, context) == context.Cluster

\* configClusterInfo == nil
ClusterMissing(configClusterInfo) == configClusterInfo = Nil

\* the check left out
ServerEmpty_Never(cluster) == FALSE

\* len(configClusterInfo.Server) == 0
ServerEmpty(cluster) == Len(cluster.Server) = 0

\* authInfoName != "" && configAuthInfo == nil
AuthInfoMissing(authInfoName, configAuthInfo) ==
    authInfoName # EmptyStr /\ configAuthInfo = Nil

\* any http scheme taken as secure
IsHTTPS_AnyHTTP(server) == HasPrefix(server, <<"h","t","t","p">>)

\* isHTTPS := strings.HasPrefix(configClusterInfo.Server, "https://")
IsHTTPS(server) == HasPrefix(server, HttpsPrefix)

\* the inline CA data decoded whatever the scheme
DecodesCAData_AnyScheme(cluster, isHTTPS) ==
    Len(cluster.CertificateAuthorityData) > 0

\* len(configClusterInfo.CertificateAuthorityData) > 0 && isHTTPS
DecodesCAData(cluster, isHTTPS) ==
    Len(cluster.CertificateAuthorityData) > 0 /\ isHTTPS

\* a pair only when both are set
HasBasicAuth_NeedsBoth(a) == Len(a.Username) > 0 /\ Len(a.Password) > 0

\* len(configAuthInfo.Username) > 0 || len(configAuthInfo.Password) > 0
HasBasicAuth(a) == Len(a.Username) > 0 \/ Len(a.Password) > 0

\* promauth.NewSecret(s)
NewSecret(s) == [S |-> s]

\* &promauth.TLSConfig{CAFile: ..., ServerName: ..., InsecureSkipVerify: ...}
NewTLSConfig(cluster) ==
    [CAFile             |-> cluster.CertificateAuthority,
     ServerName         |-> cluster.TLSServerName,
     InsecureSkipVerify |-> cluster.InsecureSkipTLSVerify,
     CA |-> <<>>, CertFile |-> EmptyStr, KeyFile |-> EmptyStr,
     Cert |-> <<>>, Key |-> <<>>]

\* what a call returns, with the locals the properties observe
Return(k, e, calls, maps) ==
    [kc |-> k, err |-> e, validated |-> calls,
     authInfos |-> maps[1], clusterInfos |-> maps[2], contexts |-> maps[3]]

----------------------------------------------------------------------------
(* func buildConfig, from the decoded Config on (kubeconfig.go:164-260) *)

\* the body of "if configAuthInfo != nil", after validate has passed
WithAuthInfo(cluster, a, isHTTPS, tls0, calls, maps) ==
    LET cert == DecodeString(a.ClientCertificateData)
        key  == DecodeString(a.ClientKeyData)
        tls1 == [tls0 EXCEPT !.CertFile = a.ClientCertificate,
                             !.KeyFile  = a.ClientKey]
        tls2 == IF Len(a.ClientCertificateData) > 0
                THEN [tls1 EXCEPT !.Cert = cert.bytes] ELSE tls1
        tls3 == IF Len(a.ClientKeyData) > 0
                THEN [tls2 EXCEPT !.Key = key.bytes] ELSE tls2
        basicAuth == IF HasBasicAuth(a)
                     THEN Ptr([Username |-> a.Username,
                               Password |-> NewSecret(a.Password)])
                     ELSE Nil
        out(tlsConfig) ==
            Return(Ptr([basicAuth |-> basicAuth,
                        server    |-> cluster.Server,
                        token     |-> a.Token,
                        tokenFile |-> a.TokenFile,
                        tlsConfig |-> tlsConfig,
                        proxyURL  |-> cluster.ProxyURL]), Nil, calls, maps)
    IN  IF ~isHTTPS THEN out(Nil)
        ELSE IF Len(a.ClientCertificateData) > 0 /\ ~cert.ok
             THEN Return(Nil, Ptr(ErrBase64("configAuthInfo.ClientCertificateData",
                                            cluster.CertificateAuthorityData)),
                         calls, maps)
        ELSE IF Len(a.ClientKeyData) > 0 /\ ~key.ok
             THEN Return(Nil, Ptr(ErrBase64("configAuthInfo.ClientKeyData",
                                            cluster.CertificateAuthorityData)),
                         calls, maps)
        ELSE out(Ptr(tls3))

\* from "var tlsConfig" on, with the context's cluster and user looked up
Assemble(contextName, cluster, configAuthInfo, maps) ==
    LET isHTTPS == IsHTTPS(cluster.Server)
        ca      == DecodeString(cluster.CertificateAuthorityData)
        tls0    == IF DecodesCAData(cluster, isHTTPS)
                   THEN [NewTLSConfig(cluster) EXCEPT !.CA = ca.bytes]
                   ELSE NewTLSConfig(cluster)
    IN  IF DecodesCAData(cluster, isHTTPS) /\ ~ca.ok
        THEN Return(Nil, Ptr(ErrBase64("configClusterInfo.CertificateAuthorityData",
                                       cluster.CertificateAuthorityData)),
                    <<>>, maps)
        ELSE IF configAuthInfo # Nil
        THEN LET a == Deref(configAuthInfo)
                 verr == validate(a)
             IN  IF verr # Nil
                 THEN Return(Nil, Ptr(ErrInvalidAuth(contextName, Deref(verr))),
                             <<a>>, maps)
                 ELSE WithAuthInfo(cluster, a, isHTTPS, tls0, <<a>>, maps)
        ELSE Return(Ptr([basicAuth |-> Nil,
                         server    |-> cluster.Server,
                         token     |-> EmptyStr,
                         tokenFile |-> EmptyStr,
                         tlsConfig |-> IF isHTTPS THEN Ptr(tls0) ELSE Nil,
                         proxyURL  |-> cluster.ProxyURL]), Nil, <<>>, maps)

\* the inline CA data decoded before the user is looked up
ResolveUser_AfterCAData(contextName, cluster, authInfoName, configAuthInfo, maps) ==
    IF DecodesCAData(cluster, IsHTTPS(cluster.Server))
       /\ ~DecodeString(cluster.CertificateAuthorityData).ok
    THEN Return(Nil, Ptr(ErrBase64("configClusterInfo.CertificateAuthorityData",
                                   cluster.CertificateAuthorityData)),
                <<>>, maps)
    ELSE IF AuthInfoMissing(authInfoName, configAuthInfo)
    THEN Return(Nil, Ptr(ErrAuthInfoNotFound(authInfoName)), <<>>, maps)
    ELSE Assemble(contextName, cluster, configAuthInfo, maps)

\* from "authInfoName := configContext.AuthInfo" on
ResolveUser(contextName, cluster, authInfoName, configAuthInfo, maps) ==
    IF AuthInfoMissing(authInfoName, configAuthInfo)
    THEN Return(Nil, Ptr(ErrAuthInfoNotFound(authInfoName)), <<>>, maps)
    ELSE Assemble(contextName, cluster, configAuthInfo, maps)

buildConfig(cfg) ==
    LET ai   == BuildMap(cfg.AuthInfos, EmptyMap)
        ci   == BuildMap(cfg.Clusters, EmptyMap)
        cx   == BuildMap(cfg.Contexts, EmptyMap)
        maps == <<ai, ci, cx>>
        contextName   == cfg.CurrentContext
        configContext == MapGet(cx, contextName)
    IN  IF ContextMissing(configContext)
        THEN Return(Nil, Ptr(ErrContextNotFound(contextName)), <<>>, maps)
        ELSE
        LET clusterInfoName   == ClusterInfoName(contextName, Deref(configContext))
            configClusterInfo == MapGet(ci, clusterInfoName)
        IN  IF ClusterMissing(configClusterInfo)
            THEN Return(Nil, Ptr(ErrClusterNotFound(clusterInfoName)), <<>>, maps)
            ELSE IF ServerEmpty(Deref(configClusterInfo))
            THEN Return(Nil, Ptr(ErrEmptyServer(contextName)), <<>>, maps)
            ELSE
            LET authInfoName   == Deref(configContext).AuthInfo
                configAuthInfo == MapGet(ai, authInfoName)
            IN  ResolveUser(contextName, Deref(configClusterInfo),
                            authInfoName, configAuthInfo, maps)

----------------------------------------------------------------------------
(* Bounds *)

\* longest clusters / users / contexts list whose entries vary freely
MaxEntries == 3

\* longest act-as-groups / act-as-user-extra list
MaxGroups == 2

SeqUpTo(S, n) == UNION {[1..k -> S] : k \in 0..n}

----------------------------------------------------------------------------
(* The decoded values the model draws its inputs from *)

Entry(name, body) == [Name |-> name, Body |-> body]

ServerHTTPS  == <<"h","t","t","p","s",":","/","/","h">>
ServerHTTPS2 == <<"h","t","t","p","s",":","/","/","k">>
ServerHTTP   == <<"h","t","t","p",":","/","/","h">>
ServerUpper  == <<"H","T","T","P","S",":","/","/","h">>
ServerBare   == <<"h",":","1">>
ServerNear   == <<"h","t","t","p","s",":","/">>

Servers == {EmptyStr, ServerHTTPS, ServerHTTPS2, ServerHTTP, ServerUpper,
            ServerBare, ServerNear}

DataFoo == <<"Z","m","9","v">>
DataBad == <<"n","o","t","-","b","a","s","e","6","4","!">>
DataF   == <<"Z","g","=","=">>

PlainCluster(server) ==
    [Server |-> server, TLSServerName |-> EmptyStr,
     InsecureSkipTLSVerify |-> FALSE, CertificateAuthority |-> EmptyStr,
     CertificateAuthorityData |-> EmptyStr, ProxyURL |-> Nil]

CAData(server, data) ==
    [PlainCluster(server) EXCEPT !.CertificateAuthorityData = data]

RichClusters ==
    [Server : Servers, TLSServerName : {EmptyStr, <<"n">>},
     InsecureSkipTLSVerify : BOOLEAN,
     CertificateAuthority : {EmptyStr, <<"/","c">>},
     CertificateAuthorityData : {EmptyStr, DataFoo, DataBad},
     ProxyURL : {Nil, Ptr(<<"p">>)}]

ExecConfig == [Command |-> <<"c">>]

NoAuth ==
    [ClientCertificate |-> EmptyStr, ClientCertificateData |-> EmptyStr,
     ClientKey |-> EmptyStr, ClientKeyData |-> EmptyStr, Exec |-> Nil,
     Token |-> EmptyStr, TokenFile |-> EmptyStr, Impersonate |-> EmptyStr,
     ImpersonateUID |-> EmptyStr, ImpersonateGroups |-> <<>>,
     ImpersonateUserExtra |-> <<>>, Username |-> EmptyStr,
     Password |-> EmptyStr]

\* every combination of the fields validate reads
ValidateAuthInfos ==
    {[NoAuth EXCEPT !.Exec = e, !.ImpersonateUID = uid, !.Impersonate = as,
                    !.ImpersonateGroups = g, !.ImpersonateUserExtra = x,
                    !.Username = un, !.Password = pw] :
        e \in {Nil, Ptr(ExecConfig)}, uid \in {EmptyStr, <<"7">>},
        as \in {EmptyStr, <<"r">>}, g \in SeqUpTo({<<"g">>}, MaxGroups),
        x \in SeqUpTo({<<"k">>}, MaxGroups),
        un \in {EmptyStr, <<"n">>}, pw \in {EmptyStr, <<"w">>}}

\* every combination of the fields buildConfig copies or decodes, with exec
RichAuthInfos ==
    {[NoAuth EXCEPT !.ClientCertificate = cf, !.ClientCertificateData = cd,
                    !.ClientKey = kf, !.ClientKeyData = kd, !.Exec = e,
                    !.Token = t, !.TokenFile = tf,
                    !.Username = un, !.Password = pw] :
        cf \in {EmptyStr, <<"/","c">>}, cd \in {EmptyStr, DataFoo, DataBad},
        kf \in {EmptyStr, <<"/","k">>}, kd \in {EmptyStr, DataF, DataBad},
        e \in {Nil, Ptr(ExecConfig)},
        t \in {EmptyStr, <<"t">>}, tf \in {EmptyStr, <<"/","t">>},
        un \in {EmptyStr, <<"n">>}, pw \in {EmptyStr, <<"w">>}}

FewAuthInfos ==
    {[NoAuth EXCEPT !.Token = <<"t">>],
     [NoAuth EXCEPT !.Exec = Ptr(ExecConfig), !.Token = <<"t">>],
     [NoAuth EXCEPT !.Impersonate = <<"r">>],
     [NoAuth EXCEPT !.Username = <<"n">>, !.Password = <<"w">>],
     [NoAuth EXCEPT !.ClientCertificateData = DataBad, !.ClientKey = <<"/","k">>],
     [NoAuth EXCEPT !.ClientCertificateData = DataFoo, !.ClientKeyData = DataBad]}

MkConfig(clusters, users, ctxs, cur) ==
    [Clusters |-> clusters, AuthInfos |-> users, Contexts |-> ctxs,
     CurrentContext |-> cur]

MkContext(cluster, user) == [Cluster |-> cluster, AuthInfo |-> user]

EmptyConfig == MkConfig(<<>>, <<>>, <<>>, EmptyStr)

\* one cluster, one context, one user entry with every user body
AuthConfigs ==
    {MkConfig(<<Entry(<<"a">>, Ptr(c))>>,
              <<Entry(un, Ptr(u))>>,
              <<Entry(<<"x">>, Ptr(MkContext(<<"a">>, ref)))>>,
              <<"x">>) :
        c \in {PlainCluster(EmptyStr), PlainCluster(ServerHTTPS),
               PlainCluster(ServerHTTP), CAData(ServerHTTPS, DataBad),
               CAData(ServerHTTP, DataBad)},
        un \in {EmptyStr, <<"u">>},
        u \in RichAuthInfos,
        ref \in {EmptyStr, <<"u">>}}

\* one context, one cluster entry with every cluster body, a few users
ClusterConfigs ==
    {MkConfig(<<Entry(<<"a">>, Ptr(c))>>,
              <<Entry(<<"u">>, Ptr(u))>>,
              <<Entry(<<"x">>, Ptr(MkContext(<<"a">>, ref)))>>,
              <<"x">>) :
        c \in RichClusters, u \in FewAuthInfos,
        ref \in {EmptyStr, <<"u">>, <<"m">>}}

\* lists with repeated names and absent bodies, one list varying at a time;
\* their entries:
ContextEntries ==
    {Entry(n, b) : n \in {EmptyStr, <<"b">>},
                   b \in {Nil, Ptr(MkContext(<<"a">>, <<"u">>)),
                          Ptr(MkContext(<<"b">>, EmptyStr))}}

ClusterEntries ==
    {Entry(n, b) : n \in {<<"a">>, <<"b">>},
                   b \in {Nil, Ptr(PlainCluster(ServerHTTPS)),
                          Ptr(CAData(ServerHTTPS2, DataFoo)),
                          Ptr(PlainCluster(EmptyStr))}}

UserEntries ==
    {Entry(n, b) : n \in {EmptyStr, <<"u">>},
                   b \in {Nil,
                          Ptr([NoAuth EXCEPT !.Token = <<"t">>]),
                          Ptr([NoAuth EXCEPT !.Exec = Ptr(ExecConfig)]),
                          Ptr([NoAuth EXCEPT !.Username = <<"n">>,
                                             !.ClientKeyData = DataBad])}}

TwoClusters == <<Entry(<<"a">>, Ptr(PlainCluster(ServerHTTPS))),
                 Entry(<<"b">>, Ptr(PlainCluster(ServerHTTP)))>>

OneUser == <<Entry(<<"u">>, Ptr([NoAuth EXCEPT !.Token = <<"t">>]))>>

\* the contexts list varies
ContextListConfigs ==
    {MkConfig(TwoClusters, OneUser, l, cur) :
        l \in SeqUpTo(ContextEntries, MaxEntries),
        cur \in {EmptyStr, <<"b">>, <<"y">>}}

\* the clusters list varies
ClusterListConfigs ==
    {MkConfig(l, OneUser, <<Entry(<<"x">>, Ptr(MkContext(ref, <<"u">>)))>>, <<"x">>) :
        l \in SeqUpTo(ClusterEntries, MaxEntries), ref \in {<<"a">>, <<"b">>}}

\* the users list varies
UserListConfigs ==
    {MkConfig(TwoClusters, l, <<Entry(<<"x">>, Ptr(MkContext(<<"a">>, ref)))>>, <<"x">>) :
        l \in SeqUpTo(UserEntries, MaxEntries), ref \in {EmptyStr, <<"u">>}}

----------------------------------------------------------------------------
(* Specification of buildConfig: a decoded Config, then the call *)

Init ==
    /\ \/ config \in AuthConfigs
       \/ config \in ClusterConfigs
       \/ config \in ContextListConfigs
       \/ config \in ClusterListConfigs
       \/ config \in UserListConfigs
    /\ au = Nil
    /\ pc = "decoded"
    /\ authInfos = EmptyMap
    /\ clusterInfos = EmptyMap
    /\ contexts = EmptyMap
    /\ validated = <<>>
    /\ kc = Nil
    /\ err = Nil

BuildConfig ==
    /\ pc = "decoded"
    /\ \E r \in {buildConfig(config)} :
           /\ kc' = r.kc
           /\ err' = r.err
           /\ validated' = r.validated
           /\ authInfos' = r.authInfos
           /\ clusterInfos' = r.clusterInfos
           /\ contexts' = r.contexts
    /\ pc' = "built"
    /\ UNCHANGED <<config, au>>

Next == BuildConfig

Spec == Init /\ [][Next]_vars

(* Specification of AuthInfo.validate called on its own *)

InitValidate ==
    /\ config = EmptyConfig
    /\ au \in {Ptr(a) : a \in ValidateAuthInfos}
    /\ pc = "unchecked"
    /\ authInfos = EmptyMap
    /\ clusterInfos = EmptyMap
    /\ contexts = EmptyMap
    /\ validated = <<>>
    /\ kc = Nil
    /\ err = Nil

Validate ==
    /\ pc = "unchecked"
    /\ err' = validate(Deref(au))
    /\ validated' = <<Deref(au)>>
    /\ pc' = "validated"
    /\ UNCHANGED <<config, au, authInfos, clusterInfos, contexts, kc>>

NextValidate == Validate

SpecValidate == InitValidate /\ [][NextValidate]_vars

----------------------------------------------------------------------------
(* What the properties read off the decoded Config, independently of the    *)
(* maps buildConfig builds.                                                 *)

Done == pc = "built"

Names(list) == {list[i].Name : i \in 1..Len(list)}

\* the body of the last entry of list named name; nil when there is none
LastBody(list, name) ==
    LET idx == {i \in 1..Len(list) : list[i].Name = name}
    IN  IF idx = {} THEN Nil
        ELSE list[CHOOSE i \in idx : \A j \in idx : j <= i].Body

RefContext == LastBody(config.Contexts, config.CurrentContext)

RefCluster ==
    IF RefContext = Nil THEN Nil
    ELSE LastBody(config.Clusters, Deref(RefContext).Cluster)

\* the context and its cluster resolve
Resolves == RefContext # Nil /\ RefCluster # Nil

RefUserName == Deref(RefContext).AuthInfo

RefUser == LastBody(config.AuthInfos, RefUserName)

Secure(server) ==
    /\ Len(server) >= 8
    /\ \A i \in 1..8 : server[i] = HttpsPrefix[i]

Malformed(data) == Len(data) > 0 /\ ~DecodeString(data).ok

Failed(kind) == err # Nil /\ kc = Nil /\ Deref(err).kind = kind

FailedOn(kind, field) == Failed(kind) /\ Deref(err).field = field

Succeeded == Done /\ err = Nil /\ kc # Nil

----------------------------------------------------------------------------
(* C4: the rules of validate, in the order of the specification *)

RuleFields ==
    <<"exec", "act-as-uid", "act-as", "act-as-groups", "act-as-user-extra",
      "username">>

RuleHolds(i, a) ==
    CASE i = 1 -> a.Exec # Nil
      [] i = 2 -> a.ImpersonateUID # EmptyStr
      [] i = 3 -> a.Impersonate # EmptyStr
      [] i = 4 -> a.ImpersonateGroups # <<>>
      [] i = 5 -> a.ImpersonateUserExtra # <<>>
      [] i = 6 -> a.Password # EmptyStr /\ a.Username = EmptyStr

FailingRules(a) == {i \in 1..6 : RuleHolds(i, a)}

FirstRule(a) == CHOOSE i \in FailingRules(a) : \A j \in FailingRules(a) : i <= j

\* C4: validate succeeds exactly when no rule's condition holds, and
\* otherwise reports the earliest rule, in the order exec, act-as-uid,
\* act-as, act-as-groups, act-as-user-extra, password-without-username,
\* whose condition holds; the first five as unsupported fields.
C4_ValidateFirstFailingRule ==
    pc = "validated" =>
        LET a == Deref(au)
        IN  /\ (err = Nil) <=> (FailingRules(a) = {})
            /\ FailingRules(a) # {} =>
                 /\ Deref(err).field = RuleFields[FirstRule(a)]
                 /\ Deref(err).kind = IF FirstRule(a) = 6
                                      THEN "InvalidCredentials"
                                      ELSE "UnsupportedAuthField"
            /\ a.Exec # Nil => err = Ptr(ErrUnsupported("exec"))

\* validate has run on a user with exec, act-as-uid, act-as and a password
\* without username, and reported exec
C4_Witness ==
    /\ pc = "validated"
    /\ Deref(au).Exec # Nil
    /\ Deref(au).ImpersonateUID # EmptyStr
    /\ Deref(au).Impersonate # EmptyStr
    /\ Len(Deref(au).ImpersonateGroups) = 2
    /\ Deref(au).Password # EmptyStr /\ Deref(au).Username = EmptyStr
    /\ err = Ptr(ErrUnsupported("exec"))

----------------------------------------------------------------------------
(* C1: an empty user reference *)

\* C1: when the context and its cluster resolve, the server is non-empty,
\* no certificate-authority-data decode failure applies and the context's
\* user reference is the empty string, buildConfig succeeds with no
\* basic-auth pair, an empty token and an empty token-file, and validate is
\* not invoked, whatever the users list holds.
C1_EmptyUserRefNoCredentials ==
    (/\ Done
     /\ Resolves
     /\ Len(Deref(RefCluster).Server) > 0
     /\ ~(Secure(Deref(RefCluster).Server)
          /\ Malformed(Deref(RefCluster).CertificateAuthorityData))
     /\ RefUserName = EmptyStr)
    => /\ Succeeded
       /\ Deref(kc).basicAuth = Nil
       /\ Deref(kc).token = EmptyStr
       /\ Deref(kc).tokenFile = EmptyStr
       /\ validated = <<>>

----------------------------------------------------------------------------
(* C2: which failure is reported when several apply *)

Steps == {"context", "cluster", "server", "ca", "user", "validate", "cert", "key"}

\* the failure condition of a step, read off the decoded Config
Applies(step) ==
    CASE step = "context"  -> RefContext = Nil
      [] step = "cluster"  -> RefContext # Nil /\ RefCluster = Nil
      [] step = "server"   -> Resolves /\ Len(Deref(RefCluster).Server) = 0
      [] step = "ca"       -> /\ Resolves
                              /\ Secure(Deref(RefCluster).Server)
                              /\ Malformed(Deref(RefCluster).CertificateAuthorityData)
      [] step = "user"     -> /\ RefContext # Nil
                              /\ RefUserName # EmptyStr
                              /\ RefUser = Nil
      [] step = "validate" -> /\ RefContext # Nil
                              /\ RefUserName # EmptyStr
                              /\ RefUser # Nil
                              /\ FailingRules(Deref(RefUser)) # {}
      [] step = "cert"     -> /\ Resolves
                              /\ Secure(Deref(RefCluster).Server)
                              /\ RefUserName # EmptyStr
                              /\ RefUser # Nil
                              /\ Malformed(Deref(RefUser).ClientCertificateData)
      [] step = "key"      -> /\ Resolves
                              /\ Secure(Deref(RefCluster).Server)
                              /\ RefUserName # EmptyStr
                              /\ RefUser # Nil
                              /\ Malformed(Deref(RefUser).ClientKeyData)

\* the failure a step reports
Reported(step) ==
    CASE step = "context"  -> Failed("ContextNotFound")
      [] step = "cluster"  -> Failed("ClusterNotFound")
      [] step = "server"   -> Failed("EmptyServerAddress")
      [] step = "ca"       -> FailedOn("Base64DecodeError",
                                       "configClusterInfo.CertificateAuthorityData")
      [] step = "user"     -> Failed("AuthInfoNotFound")
      [] step = "validate" -> Failed("InvalidAuthInfo")
      [] step = "cert"     -> FailedOn("Base64DecodeError",
                                       "configAuthInfo.ClientCertificateData")
      [] step = "key"      -> FailedOn("Base64DecodeError",
                                       "configAuthInfo.ClientKeyData")

\* the first step of order whose failure condition applies
Earliest(order) ==
    order[CHOOSE i \in 1..Len(order) :
            /\ Applies(order[i])
            /\ \A j \in 1..(i - 1) : ~Applies(order[j])]

ReportsEarliest(order) ==
    (Done /\ \E step \in Steps : Applies(step)) => Reported(Earliest(order))

\* C2 as stated: the reported failure is the earliest applying one in the
\* order context, cluster, server, certificate-authority-data, user,
\* validator, client-certificate-data, client-key-data.
C2_OrderAsStated ==
    ReportsEarliest(<<"context", "cluster", "server", "ca", "user",
                      "validate", "cert", "key">>)

\* C2 amended: the reported failure is the earliest applying one in the
\* order context, cluster, server, user, certificate-authority-data,
\* validator, client-certificate-data, client-key-data.
C2_OrderOfTheCode ==
    ReportsEarliest(<<"context", "cluster", "server", "user", "ca",
                      "validate", "cert", "key">>)

\* an https cluster with malformed CA data and a user reference that names
\* no user: AuthInfoNotFound is what buildConfig returned
C2_Witness ==
    /\ Done
    /\ Applies("ca")
    /\ Applies("user")
    /\ Reported("user")

----------------------------------------------------------------------------
(* C3, C5, C8: the cluster's server *)

\* C3: a successful resolution carries a TLS bundle exactly when the
\* referenced cluster's server starts with "https://".
C3_TLSBundleIffHTTPS ==
    Succeeded =>
        /\ Resolves
        /\ (Deref(kc).tlsConfig # Nil) <=> Secure(Deref(RefCluster).Server)

\* a success over "HTTPS://h" (or another non-https server) whose cluster
\* names a CA file and inline CA data, with no TLS bundle in the output
C3_Witness ==
    /\ Succeeded
    /\ Deref(RefCluster).Server \in {ServerUpper, ServerHTTP, ServerBare, ServerNear}
    /\ Deref(RefCluster).CertificateAuthority # EmptyStr
    /\ Deref(RefCluster).CertificateAuthorityData # EmptyStr
    /\ RefUser # Nil
    /\ Deref(RefUser).ClientKey # EmptyStr
    /\ Deref(kc).tlsConfig = Nil

\* C5: when the context and its cluster resolve and the cluster's server is
\* empty, buildConfig fails with EmptyServerAddress naming the current
\* context, whatever the other fields hold.
C5_EmptyServerAlwaysReported ==
    (Done /\ Resolves /\ Deref(RefCluster).Server = EmptyStr)
    => /\ err = Ptr(ErrEmptyServer(config.CurrentContext))
       /\ kc = Nil

\* an empty server together with malformed CA data and a user reference
\* that names no user: EmptyServerAddress is what buildConfig returned
C5_Witness ==
    /\ Done
    /\ Resolves
    /\ Deref(RefCluster).Server = EmptyStr
    /\ Malformed(Deref(RefCluster).CertificateAuthorityData)
    /\ RefUserName # EmptyStr
    /\ RefUser = Nil
    /\ Failed("EmptyServerAddress")

\* C8: on success the output's server is non-empty and is the server of the
\* cluster the current context names, unchanged, and the output's proxy URL
\* is that cluster's.
C8_ServerOfReferencedCluster ==
    Succeeded =>
        /\ Resolves
        /\ Len(Deref(kc).server) > 0
        /\ Deref(kc).server = Deref(RefCluster).Server
        /\ Deref(kc).proxyURL = Deref(RefCluster).ProxyURL

\* a success where the clusters list also holds a cluster with another
\* server, under the current context's own name
C8_Witness ==
    /\ Succeeded
    /\ \E i \in 1..Len(config.Clusters) :
         /\ config.Clusters[i].Name = config.CurrentContext
         /\ config.Clusters[i].Body # Nil
         /\ Deref(config.Clusters[i].Body).Server # Deref(kc).server
         /\ Deref(config.Clusters[i].Body).Server # EmptyStr

----------------------------------------------------------------------------
(* C6: the three name-keyed mappings *)

LastWins(map, list) ==
    /\ DOMAIN map = Names(list)
    /\ \A n \in Names(list) : map[n] = LastBody(list, n)

\* C6: each mapping holds exactly the names of its list, each with the body
\* of the last entry of that name, and a successful resolution reads the
\* referenced context, cluster and user from the last entries.
C6_LastEntryWins ==
    Done =>
        /\ LastWins(clusterInfos, config.Clusters)
        /\ LastWins(authInfos, config.AuthInfos)
        /\ LastWins(contexts, config.Contexts)
        /\ config.Clusters = <<>> => clusterInfos = EmptyMap
        /\ config.AuthInfos = <<>> => authInfos = EmptyMap
        /\ config.Contexts = <<>> => contexts = EmptyMap
        /\ Succeeded =>
             /\ Resolves
             /\ Deref(kc).server = Deref(RefCluster).Server
             /\ RefUserName # EmptyStr =>
                  /\ RefUser # Nil
                  /\ Deref(kc).token = Deref(RefUser).Token

\* two entries for the referenced cluster name with different servers: the
\* output's server is the later one's
C6_Witness ==
    /\ Succeeded
    /\ \E i, j \in 1..Len(config.Clusters) :
         /\ i < j
         /\ config.Clusters[i].Name = Deref(RefContext).Cluster
         /\ config.Clusters[j].Name = Deref(RefContext).Cluster
         /\ config.Clusters[i].Body # Nil
         /\ config.Clusters[j].Body # Nil
         /\ Deref(config.Clusters[i].Body).Server = ServerHTTPS
         /\ Deref(config.Clusters[j].Body).Server = ServerHTTPS2
         /\ Deref(kc).server = ServerHTTPS2

----------------------------------------------------------------------------
(* C7: credentials *)

\* C7: on success with a user reference that resolves, the output has a
\* basic-auth pair exactly when the user's username or password is
\* non-empty, the pair carries both, and token and token-file are the
\* user's.
C7_CredentialsAreTheUsers ==
    (Succeeded /\ RefUserName # EmptyStr) =>
        /\ RefUser # Nil
        /\ LET u == Deref(RefUser)
               k == Deref(kc)
           IN  /\ (k.basicAuth # Nil) <=>
                      (u.Username # EmptyStr \/ u.Password # EmptyStr)
               /\ k.basicAuth # Nil =>
                      /\ Deref(k.basicAuth).Username = u.Username
                      /\ Deref(k.basicAuth).Password = [S |-> u.Password]
               /\ k.token = u.Token
               /\ k.tokenFile = u.TokenFile

\* a success whose user has a username without password, a token and a
\* token-file: the output carries all three
C7_Witness ==
    /\ Succeeded
    /\ RefUserName # EmptyStr
    /\ Deref(RefUser).Username # EmptyStr
    /\ Deref(RefUser).Password = EmptyStr
    /\ Deref(kc).basicAuth # Nil
    /\ Deref(kc).token # EmptyStr
    /\ Deref(kc).tokenFile # EmptyStr

----------------------------------------------------------------------------
(* C9: TLS material over an insecure scheme *)

MapBodies(list, F(_)) ==
    [i \in 1..Len(list) |->
        IF list[i].Body = Nil THEN list[i]
        ELSE Entry(list[i].Name, Ptr(F(Deref(list[i].Body))))]

ClearCluster(c) ==
    [c EXCEPT !.CertificateAuthority = EmptyStr,
              !.CertificateAuthorityData = EmptyStr]

ClearUser(u) ==
    [u EXCEPT !.ClientCertificate = EmptyStr, !.ClientCertificateData = EmptyStr,
              !.ClientKey = EmptyStr, !.ClientKeyData = EmptyStr]

\* the Config with the CA and client certificate/key fields of every entry
\* emptied: two Configs that differ only in those fields have the same one
WithoutTLSFields(cfg) ==
    [cfg EXCEPT !.Clusters = MapBodies(cfg.Clusters, ClearCluster),
                !.AuthInfos = MapBodies(cfg.AuthInfos, ClearUser)]

OverHTTPS(c) == [c EXCEPT !.Server = ServerHTTPS]

\* the same Config with every cluster served over "https://"
SecureVariant(cfg) ==
    [cfg EXCEPT !.Clusters = MapBodies(cfg.Clusters, OverHTTPS)]

\* C9: when the referenced cluster's server does not start with "https://",
\* the outcome is that of the Config with all CA and client
\* certificate/key fields emptied and is never a Base64DecodeError; and a
\* success there that carries malformed inline data (the cluster's, or the
\* referenced user's) is a Base64DecodeError once the server is https.
C9_InsecureIgnoresTLSFields ==
    (Done /\ Resolves /\ ~Secure(Deref(RefCluster).Server)) =>
        /\ \E r \in {buildConfig(WithoutTLSFields(config))} :
              kc = r.kc /\ err = r.err
        /\ ~Failed("Base64DecodeError")
        /\ (/\ Succeeded
            /\ \/ Malformed(Deref(RefCluster).CertificateAuthorityData)
               \/ /\ RefUserName # EmptyStr
                  /\ \/ Malformed(Deref(RefUser).ClientCertificateData)
                     \/ Malformed(Deref(RefUser).ClientKeyData))
           => \E r \in {buildConfig(SecureVariant(config))} :
                 /\ r.kc = Nil
                 /\ r.err # Nil
                 /\ Deref(r.err).kind = "Base64DecodeError"

\* a success over "http://" whose cluster and user carry malformed inline
\* CA, certificate and key data
C9_Witness ==
    /\ Succeeded
    /\ Deref(RefCluster).Server = ServerHTTP
    /\ Malformed(Deref(RefCluster).CertificateAuthorityData)
    /\ RefUserName # EmptyStr
    /\ Malformed(Deref(RefUser).ClientCertificateData)
    /\ Malformed(Deref(RefUser).ClientKeyData)
    /\ Deref(kc).tlsConfig = Nil

----------------------------------------------------------------------------
(* C10: entries without a body *)

\* the last entry of list named name exists and has no body
Bodyless(list, name) == name \in Names(list) /\ LastBody(list, name) = Nil

RECURSIVE Present(_, _)
Present(l, full) ==
    IF l = <<>> THEN <<>>
    ELSE (IF Head(l).Body # Nil /\ LastBody(full, Head(l).Name) # Nil
          THEN <<Head(l)>> ELSE <<>>) \o Present(Tail(l), full)

\* the Config without its body-less entries and without the entries a later
\* body-less entry of the same name replaces
WithoutBodyless(cfg) ==
    [cfg EXCEPT !.Clusters = Present(cfg.Clusters, cfg.Clusters),
                !.AuthInfos = Present(cfg.AuthInfos, cfg.AuthInfos),
                !.Contexts = Present(cfg.Contexts, cfg.Contexts)]

\* C10: a name whose last entry has no body resolves as a name that is not
\* in the list: the outcome is that of the Config without such names, and a
\* reference to one fails with ContextNotFound, ClusterNotFound or
\* AuthInfoNotFound.
C10_BodylessIsNotFound ==
    Done =>
        /\ \E r \in {buildConfig(WithoutBodyless(config))} :
              kc = r.kc /\ err = r.err
        /\ Bodyless(config.Contexts, config.CurrentContext)
              => err = Ptr(ErrContextNotFound(config.CurrentContext)) /\ kc = Nil
        /\ (RefContext # Nil
             /\ Bodyless(config.Clusters, Deref(RefContext).Cluster))
              => err = Ptr(ErrClusterNotFound(Deref(RefContext).Cluster)) /\ kc = Nil
        /\ (Resolves
             /\ Deref(RefCluster).Server # EmptyStr
             /\ RefUserName # EmptyStr
             /\ Bodyless(config.AuthInfos, RefUserName))
              => err = Ptr(ErrAuthInfoNotFound(RefUserName)) /\ kc = Nil

\* the referenced cluster name has a complete entry and then a body-less
\* one: ClusterNotFound is what buildConfig returned
C10_Witness ==
    /\ Done
    /\ RefContext # Nil
    /\ \E i, j \in 1..Len(config.Clusters) :
         /\ i < j
         /\ config.Clusters[i].Name = Deref(RefContext).Cluster
         /\ config.Clusters[i].Body # Nil
         /\ Deref(config.Clusters[i].Body).Server # EmptyStr
         /\ config.Clusters[j].Name = Deref(RefContext).Cluster
         /\ config.Clusters[j].Body = Nil
    /\ Bodyless(config.Clusters, Deref(RefContext).Cluster)
    /\ Failed("ClusterNotFound")

====
